---- MODULE Spec2Model ----
(***************************************************************************)
(* Query-building session of goSQL (db.DmlBase) and the parameter array    *)
(* builder (db.RawSql.BuildValues), modelled from src/dbx/SimpleDBA.go.    *)
(*                                                                         *)
(* Go pointers are indices into three heaps: assoc (Association objects),  *)
(* pe (PathElement objects) and tok (Criteria/Token nodes).  The schema    *)
(* metadata and the caller-held criteria templates occupy the first        *)
(* entries of the heaps; everything a session allocates is appended.       *)
(* A nil pointer is 0.  All token values are strings.                      *)
(***************************************************************************)
EXTENDS Integers, Sequences, FiniteSets, TLC

VARIABLES
    assoc,              \* heap of Association objects (schema first, clones after)
    pe,                 \* heap of PathElement objects
    tok,                \* heap of Criteria/Token nodes (templates first)
    table,              \* DmlBase.table (name of the base table)
    tableAlias,         \* DmlBase.tableAlias
    joinBag,            \* DmlBase.joinBag (*AliasBag)
    joins,              \* DmlBase.joins
    criteria,           \* DmlBase.criteria (token id, 0 = nil)
    parameters,         \* DmlBase.parameters
    lastFkAlias,        \* DmlBase.lastFkAlias
    lastJoin,           \* DmlBase.lastJoin (index into joins, 0 = nil)
    discriminatorCriterias, \* DmlBase.discriminatorCriterias
    rawIndex,           \* DmlBase.rawIndex
    cachedAssociation,  \* DmlBase.cachedAssociation
    path,               \* DmlBase.path
    rawSQL,             \* DmlBase.rawSQL # nil
    subqueries,         \* parameters of the subquery sessions the caller built
    asked,              \* aliases GetAliasForAssociation returned to the caller
    names,              \* RawSql.Names of the statement handed to BuildValues
    paramMap,           \* the paramMap argument of BuildValues
    values,             \* outcome of BuildValues
    peer,               \* the DmlBase fields of a second session over the same schema
    log,                \* the operations each of the two sessions performed, in order
    connection,         \* SimpleDBA.connection: the statements prepared on it
    outcome,            \* what the last SimpleDBA operation returned
    calls               \* number of session operations performed so far

vars == <<assoc, pe, tok, table, tableAlias, joinBag, joins, criteria, parameters,
          lastFkAlias, lastJoin, discriminatorCriterias, rawIndex, cachedAssociation,
          path, rawSQL, subqueries, asked, names, paramMap, values, calls, peer, log,
          connection, outcome>>

sessionVars == <<assoc, pe, tok, table, tableAlias, joinBag, joins, criteria, parameters,
                 lastFkAlias, lastJoin, discriminatorCriterias, rawIndex,
                 cachedAssociation, path, rawSQL, subqueries, asked, calls, peer, log,
                 connection, outcome>>

buildVars == <<names, paramMap, values>>

peerVars == <<peer, log>>

dbaVars == <<connection, outcome>>

---------------------------------------------------------------------------
(* Bounds *)

\* joinTo calls per session
MaxJoins == 2

\* associations per requested path
MaxPathLen == 2

\* where calls per session
MaxWheres == 1

\* where calls of a session of SpecWhere
MaxWhereSequence == 2

\* statements prepared on the connection
MaxStatements == 2

\* rows of a result
MaxRows == 2

\* SetTableAlias calls per session
MaxAliasChanges == 1

\* GetAliasForAssociation calls per session
MaxAsks == 2

\* declared names of a statement handed to BuildValues
MaxNames == 2

\* calls of the two sessions together when two sessions are interleaved
MaxSessionCalls == 4

---------------------------------------------------------------------------
(* Program constants *)

JOIN_PREFIX == "j"

PREFIX == "t"

TOKEN_RAW == "RAW"

TOKEN_PARAM == "PARAM"

TOKEN_SUBQUERY == "SUBQUERY"

TOKEN_AND == "AND"

TOKEN_EQ == "EQ"

TOKEN_COLUMN == "COLUMN"

\* the nil interface value held by a parameter map
Nil == "<nil>"

EmptyMap == [k \in {} |-> ""]

Last(s) == s[Len(s)]

---------------------------------------------------------------------------
(* Schema metadata: built once by the application, shared by all sessions *)

Token(op, value, members) ==
    [op |-> op, value |-> value, alias |-> "", members |-> members]

Association(name, tableTo, fromM2M, toM2M, discriminatorTable, discriminators) ==
    [name |-> name, tableTo |-> tableTo, FromM2M |-> fromM2M, ToM2M |-> toM2M,
     discriminatorTable |-> discriminatorTable, discriminators |-> discriminators,
     aliasFrom |-> "", aliasTo |-> "",
     relations |-> IF fromM2M = 0 THEN <<[from |-> "", to |-> ""]>> ELSE <<>>]

\* A: T0 -> T1, with a discriminator on a column of T0;
\* M: T0 -> T2 through the junction table J (MF: T0 -> J, MT: J -> T2), with
\* a discriminator on a column of T2;  B: T1 -> T3, without discriminators
SchemaAssociations ==
    << Association("A", "T1", 0, 0, "T0", <<[column |-> "type", value |-> "3"]>>),
       Association("M", "T2", 3, 4, "T2", <<[column |-> "cat", value |-> "4"]>>),
       Association("MF", "J", 0, 0, "", <<>>),
       Association("MT", "T2", 0, 0, "", <<>>),
       Association("B", "T3", 0, 0, "", <<>>) >>

\* the associations a caller can put in a path
PathAssociations == {1, 2}

\* tokens 1..9: table discriminators (deleted = 0 on T0, active = 1 on T1,
\* kind = 2 on T2); tokens 10..21: criteria held by the caller (x = 7,
\* y = (subquery Q1), z = (subquery Q2), w = 9)
TemplateTokens ==
    << Token(TOKEN_COLUMN, "deleted", <<>>),
       Token(TOKEN_RAW, "0", <<>>),
       Token(TOKEN_EQ, "", <<1, 2>>),
       Token(TOKEN_COLUMN, "active", <<>>),
       Token(TOKEN_RAW, "1", <<>>),
       Token(TOKEN_EQ, "", <<4, 5>>),
       Token(TOKEN_COLUMN, "kind", <<>>),
       Token(TOKEN_RAW, "2", <<>>),
       Token(TOKEN_EQ, "", <<7, 8>>),
       Token(TOKEN_COLUMN, "x", <<>>),
       Token(TOKEN_RAW, "7", <<>>),
       Token(TOKEN_EQ, "", <<10, 11>>),
       Token(TOKEN_COLUMN, "y", <<>>),
       Token(TOKEN_SUBQUERY, "Q1", <<>>),
       Token(TOKEN_EQ, "", <<13, 14>>),
       Token(TOKEN_COLUMN, "z", <<>>),
       Token(TOKEN_SUBQUERY, "Q2", <<>>),
       Token(TOKEN_EQ, "", <<16, 17>>),
       Token(TOKEN_COLUMN, "w", <<>>),
       Token(TOKEN_RAW, "9", <<>>),
       Token(TOKEN_EQ, "", <<19, 20>>) >>

\* Table.GetCriterias(): the discriminator criteria of a table
GetCriterias(tbl) ==
    CASE tbl = "T0" -> <<3>>
      [] tbl = "T1" -> <<6>>
      [] tbl = "T2" -> <<9>>
      [] OTHER -> <<>>

---------------------------------------------------------------------------
(* AliasBag: association -> alias, with a prefix and a counter *)

NewAliasBag(prefix) == [prefix |-> prefix, counter |-> 0, bag |-> EmptyMap]

AliasBagHas(jb, fk) == fk \in DOMAIN jb.bag

\* AliasBag.SetAlias(fk, alias): registers the caller's alias for fk
AliasBagSetAlias(jb, fk, alias) == [jb EXCEPT !.bag = (fk :> alias) @@ @]

\* AliasBag.GetAlias(fk): the registered alias, or a newly generated one
\* (prefix followed by the incremented counter), which it registers.
\* Returns the bag after the call and the alias.
AliasBagGetAlias(jb, fk) ==
    IF AliasBagHas(jb, fk)
    THEN [bag |-> jb, alias |-> jb.bag[fk]]
    ELSE LET c == jb.counter + 1
             a == jb.prefix \o ToString(c)
         IN  [bag |-> [jb EXCEPT !.counter = c, !.bag = (fk :> a) @@ @], alias |-> a]

---------------------------------------------------------------------------
(* Association *)

IsMany2Many(a) == a.FromM2M # 0

\* Association.Clone(): a copy of the association; the two junction
\* associations of a many-to-many association are copied with it.
\* Returns the heap after the call and the id of the copy.
AssociationClone(heap, id) ==
    IF IsMany2Many(heap[id])
    THEN LET h1 == Append(heap, heap[heap[id].FromM2M])
             h2 == Append(h1, heap[heap[id].ToM2M])
             h3 == Append(h2, [heap[id] EXCEPT !.FromM2M = Len(h1), !.ToM2M = Len(h2)])
         IN  [heap |-> h3, id |-> Len(h3)]
    ELSE [heap |-> Append(heap, heap[id]), id |-> Len(heap) + 1]

\* the association itself instead of a copy
DeriveAssociationShared(heap, association) == [heap |-> heap, id |-> association]

\* addJoin line 706: deriveds[f], _ = association.Clone().(*Association)
DeriveAssociation(heap, association) == AssociationClone(heap, association)

\* prepareAssociation lines 790-793: the aliases of the relations
RECURSIVE prepareRelations(_, _, _, _)
prepareRelations(relations, aliasFrom, aliasTo, i) ==
    IF i > Len(relations)
    THEN relations
    ELSE prepareRelations([relations EXCEPT ![i] = [from |-> aliasFrom, to |-> aliasTo]],
                          aliasFrom, aliasTo, i + 1)

prepareAssociation(heap, aliasFrom, aliasTo, currentFk) ==
    [heap EXCEPT ![currentFk] =
        [@ EXCEPT !.aliasFrom = aliasFrom,
                  !.aliasTo = aliasTo,
                  !.relations = prepareRelations(@, aliasFrom, aliasTo, 1)]]

---------------------------------------------------------------------------
(* Path resolution *)

\* length of the common start portion of a cached path and the requested one,
\* elements compared by their schema-level association
RECURSIVE CommonDepth(_, _, _, _)
CommonDepth(heap, cached, associations, depth) ==
    IF /\ depth < Len(cached)
       /\ depth < Len(associations)
       /\ heap[cached[depth + 1]].Base = heap[associations[depth + 1]].Base
    THEN CommonDepth(heap, cached, associations, depth + 1)
    ELSE depth

\* DeepestCommonPath(cachedAssociation, associations): the longest start portion
\* of a cached path that the requested path shares; the first cached path wins a tie
RECURSIVE DeepestCommonPathFrom(_, _, _, _, _)
DeepestCommonPathFrom(heap, cached, associations, i, common) ==
    IF i > Len(cached)
    THEN common
    ELSE LET d == CommonDepth(heap, cached[i], associations, 0)
         IN  DeepestCommonPathFrom(heap, cached, associations, i + 1,
                 IF d > Len(common) THEN SubSeq(cached[i], 1, d) ELSE common)

DeepestCommonPath(heap, cached, associations) ==
    DeepestCommonPathFrom(heap, cached, associations, 1, <<>>)

\* addJoin lines 757-766: the path element is matched by the cache
addJoinCached(st, p, lastCachedFk) ==
    [st EXCEPT !.lastFk = IF IsMany2Many(st.this.assoc[lastCachedFk])
                          THEN st.this.assoc[lastCachedFk].ToM2M
                          ELSE lastCachedFk,
               !.derived = lastCachedFk]

\* addJoin lines 704-756: the path element is resolved anew
addJoinDerive(st, p) ==
    LET this == st.this
        preferred == this.pe[p].PreferredAlias
        cl == DeriveAssociation(this.assoc, this.pe[p].Base)
        d == cl.id
        fk == IF st.f = 0
              THEN [bag |-> this.joinBag, alias |-> this.tableAlias]
              ELSE AliasBagGetAlias(this.joinBag, st.lastFk)
    IN  IF IsMany2Many(cl.heap[d])
        THEN LET fromFk == cl.heap[d].FromM2M
                 toFk == cl.heap[d].ToM2M
                 g1 == AliasBagGetAlias(fk.bag, fromFk)
                 h1 == prepareAssociation(cl.heap, fk.alias, g1.alias, fromFk)
                 g2 == IF preferred = ""
                       THEN AliasBagGetAlias(g1.bag, toFk)
                       ELSE [bag |-> AliasBagSetAlias(g1.bag, toFk, preferred),
                             alias |-> preferred]
                 g3 == AliasBagGetAlias(g2.bag, fromFk)
                 h2 == prepareAssociation(h1, g3.alias, g2.alias, toFk)
             IN  [st EXCEPT !.this.assoc = h2, !.this.joinBag = g3.bag,
                            !.lastFk = toFk, !.derived = d]
        ELSE LET g == IF preferred = ""
                      THEN AliasBagGetAlias(fk.bag, d)
                      ELSE [bag |-> AliasBagSetAlias(fk.bag, d, preferred),
                            alias |-> preferred]
                 h == prepareAssociation(cl.heap, fk.alias, g.alias, d)
             IN  [st EXCEPT !.this.assoc = h, !.this.joinBag = g.bag,
                            !.lastFk = d, !.derived = d]

\* addJoin lines 691-771: one turn of the loop over the requested path;
\* st holds this, common, f, lastFk, matches, local and the derived of this turn
addJoinElement(st, p) ==
    LET hit == /\ st.matches
               /\ st.f < Len(st.common)
               /\ st.this.pe[st.common[st.f + 1]].Base = st.this.pe[p].Base
        lastCachedFk == IF hit THEN st.this.pe[st.common[st.f + 1]].Derived ELSE 0
        s1 == [st EXCEPT !.matches = hit]
        s2 == IF lastCachedFk = 0
              THEN addJoinDerive(s1, p)
              ELSE addJoinCached(s1, p, lastCachedFk)
    IN  [s2 EXCEPT !.this.pe[p].Derived = s2.derived,
                   !.local = Append(@, p),
                   !.f = @ + 1]

RECURSIVE addJoinLoop(_, _, _)
addJoinLoop(st, associations, i) ==
    IF i > Len(associations)
    THEN st
    ELSE addJoinLoop(addJoinElement(st, associations[i]), associations, i + 1)

\* Join record
NewJoin(local, fetch) == [associations |-> local, fetch |-> fetch]

\* addJoin caching every resolved path (without the test of line 774)
addJoinAlwaysCached(this, associations, fetch) ==
    LET common == DeepestCommonPath(this.pe, this.cachedAssociation, associations)
        st == addJoinLoop([this |-> this, common |-> common, f |-> 0, lastFk |-> 0,
                           matches |-> TRUE, local |-> <<>>, derived |-> 0],
                          associations, 1)
        t == st.this
        g == AliasBagGetAlias(t.joinBag, st.lastFk)
    IN  [t EXCEPT !.cachedAssociation = Append(@, st.local),
                  !.joinBag = g.bag,
                  !.lastFkAlias = g.alias,
                  !.joins = Append(@, NewJoin(st.local, fetch)),
                  !.lastJoin = Len(t.joins) + 1]

\* addJoin recording only the newly resolved elements in the Join
addJoinResolvedOnly(this, associations, fetch) ==
    LET common == DeepestCommonPath(this.pe, this.cachedAssociation, associations)
        st == addJoinLoop([this |-> this, common |-> common, f |-> 0, lastFk |-> 0,
                           matches |-> TRUE, local |-> <<>>, derived |-> 0],
                          associations, 1)
        t == st.this
        g == AliasBagGetAlias(t.joinBag, st.lastFk)
        resolved == SubSeq(st.local, Len(common) + 1, Len(st.local))
    IN  [t EXCEPT !.cachedAssociation = IF st.matches THEN @ ELSE Append(@, st.local),
                  !.joinBag = g.bag,
                  !.lastFkAlias = g.alias,
                  !.joins = Append(@, NewJoin(resolved, fetch)),
                  !.lastJoin = Len(t.joins) + 1]

\* DmlBase.addJoin(associations, nil, fetch)
addJoin(this, associations, fetch) ==
    LET common == DeepestCommonPath(this.pe, this.cachedAssociation, associations)
        st == addJoinLoop([this |-> this, common |-> common, f |-> 0, lastFk |-> 0,
                           matches |-> TRUE, local |-> <<>>, derived |-> 0],
                          associations, 1)
        t == st.this
        g == AliasBagGetAlias(t.joinBag, st.lastFk)
    IN  [t EXCEPT !.cachedAssociation = IF st.matches THEN @ ELSE Append(@, st.local),
                  !.joinBag = g.bag,
                  !.lastFkAlias = g.alias,
                  !.joins = Append(@, NewJoin(st.local, fetch)),
                  !.lastJoin = Len(t.joins) + 1]

---------------------------------------------------------------------------
(* Criteria / Token *)

\* Criteria.Clone(): a deep copy of the tree; a subquery token keeps pointing
\* to the same subquery.  Returns the heap after the call and the id of the copy.
RECURSIVE CriteriaClone(_, _)
RECURSIVE CloneMembers(_, _, _, _)
CloneMembers(heap, members, i, acc) ==
    IF i > Len(members)
    THEN [heap |-> heap, ids |-> acc]
    ELSE LET c == CriteriaClone(heap, members[i])
         IN  CloneMembers(c.heap, members, i + 1, Append(acc, c.id))

CriteriaClone(heap, id) ==
    LET m == CloneMembers(heap, heap[id].members, 1, <<>>)
    IN  [heap |-> Append(m.heap, [heap[id] EXCEPT !.members = m.ids]),
         id |-> Len(m.heap) + 1]

\* Criteria.SetTableAlias(alias): rewrites the alias of the node and of its members
RECURSIVE CriteriaSetTableAlias(_, _, _)
RECURSIVE SetMembersAlias(_, _, _, _)
SetMembersAlias(heap, members, i, alias) ==
    IF i > Len(members)
    THEN heap
    ELSE SetMembersAlias(CriteriaSetTableAlias(heap, members[i], alias), members, i + 1, alias)

CriteriaSetTableAlias(heap, id, alias) ==
    LET h == SetMembersAlias(heap, heap[id].members, 1, alias)
    IN  [h EXCEPT ![id].alias = alias]

\* And(criterias...): a new AND token over the given criteria (not copied)
And(heap, criterias) ==
    [heap |-> Append(heap, Token(TOKEN_AND, "", criterias)), id |-> Len(heap) + 1]

\* Discriminator.Criteria(): a new criteria column = value
DiscriminatorCriteria(heap, v) ==
    LET h1 == Append(heap, Token(TOKEN_COLUMN, v.column, <<>>))
        h2 == Append(h1, Token(TOKEN_RAW, v.value, <<>>))
        h3 == Append(h2, Token(TOKEN_EQ, "", <<Len(h1), Len(h2)>>))
    IN  [heap |-> h3, id |-> Len(h3)]

---------------------------------------------------------------------------
(* Raw-to-parameter rewriter *)

SetParameter(this, key, parameter) ==
    [this EXCEPT !.parameters = (key :> parameter) @@ @]

\* replaceRaw lines 921-927: the token is a raw literal
replaceRawToken(this, token) ==
    LET index == this.rawIndex + 1
        parameter == this.tableAlias \o "_R" \o ToString(index)
        t == SetParameter([this EXCEPT !.rawIndex = index], parameter, this.tok[token].value)
    IN  [t EXCEPT !.tok[token].op = TOKEN_PARAM, !.tok[token].value = parameter]

\* replaceRaw lines 928-934: the token is a subquery, whose parameters are
\* copied to the main query
replaceRawSubquery(this, token) ==
    LET subquery == this.subqueries[this.tok[token].value]
    IN  [this EXCEPT !.parameters = subquery @@ @]

RECURSIVE replaceRaw(_, _)
RECURSIVE replaceRawMembers(_, _, _)
replaceRawMembers(this, members, i) ==
    IF i > Len(members)
    THEN this
    ELSE replaceRawMembers(replaceRaw(this, members[i]), members, i + 1)

replaceRaw(this, token) ==
    IF this.tok[token].op = TOKEN_RAW
    THEN replaceRawToken(this, token)
    ELSE IF this.tok[token].op = TOKEN_SUBQUERY
         THEN replaceRawSubquery(this, token)
         ELSE replaceRawMembers(this, this.tok[token].members, 1)

---------------------------------------------------------------------------
(* WHERE *)

\* the restriction itself instead of a copy
applyWhereTokenShared(heap, restriction) == [heap |-> heap, id |-> restriction]

\* applyWhere line 852: token, _ := restriction.Clone().(*Criteria)
applyWhereToken(heap, restriction) == CriteriaClone(heap, restriction)

applyWhere(this, restriction) ==
    LET c == applyWhereToken(this.tok, restriction)
        t1 == replaceRaw([this EXCEPT !.tok = c.heap], c.id)
    IN  [t1 EXCEPT !.tok = CriteriaSetTableAlias(t1.tok, c.id, t1.tableAlias),
                   !.criteria = c.id,
                   !.rawSQL = FALSE]

\* where without the discriminators of the base table (lines 802-804 left out)
whereRestrictionsOnly(this, restrictions) ==
    IF Len(restrictions) > 0
    THEN LET a == And(this.tok, restrictions)
         IN  applyWhere([this EXCEPT !.tok = a.heap], a.id)
    ELSE this

where(this, restrictions) ==
    LET criterias == restrictions \o this.discriminatorCriterias
    IN  IF Len(criterias) > 0
        THEN LET a == And(this.tok, criterias)
             IN  applyWhere([this EXCEPT !.tok = a.heap], a.id)
        ELSE this

---------------------------------------------------------------------------
(* JOIN ... ON *)

\* the criteria themselves instead of a copy
applyOnTokenShared(heap, crit) == [heap |-> heap, id |-> crit]

\* applyOn line 814: cpy, _ := criteria.Clone().(*Criteria)
applyOnToken(heap, crit) == CriteriaClone(heap, crit)

applyOn(this, chain, crit) ==
    IF Len(chain) > 0
    THEN LET p == Last(chain)
             c == applyOnToken(this.tok, crit)
             fk == this.pe[p].Derived
             g == IF IsMany2Many(this.assoc[fk])
                  THEN AliasBagGetAlias(this.joinBag, this.assoc[fk].ToM2M)
                  ELSE AliasBagGetAlias(this.joinBag, fk)
             t1 == replaceRaw([this EXCEPT !.joinBag = g.bag,
                                           !.tok = CriteriaSetTableAlias(c.heap, c.id, g.alias)],
                              c.id)
         IN  [t1 EXCEPT !.pe[p].Criteria = c.id, !.rawSQL = FALSE]
    ELSE this

NilPathCriteria == [nil |-> TRUE, Criterias |-> <<>>, Columns |-> <<>>]

\* buildPathCriterias lines 618-646: criteria of the path element, table
\* discriminators of the target table and column includes
pathElementCriteria(this, p) ==
    LET own == IF this.pe[p].Criteria # 0 THEN <<this.pe[p].Criteria>> ELSE <<>>
        tableCriterias == GetCriterias(this.assoc[this.pe[p].Base].tableTo)
        columns == this.pe[p].Columns
    IN  [nil |-> own = <<>> /\ tableCriterias = <<>> /\ columns = <<>>,
         Criterias |-> own \o tableCriterias,
         Columns |-> columns]

RECURSIVE pathElementCriterias(_, _, _, _)
pathElementCriterias(this, paths, i, pathCriterias) ==
    IF i > Len(paths)
    THEN pathCriterias
    ELSE pathElementCriterias(this, paths, i + 1,
                              Append(pathCriterias, pathElementCriteria(this, paths[i])))

\* buildPathCriterias lines 662-671: the criteria of the association
\* discriminators; force is the alias of the previous hop or "" when the
\* discriminators refer to the target table.  st holds the heap and the criteria.
RECURSIVE discriminatorsCriterias(_, _, _, _)
discriminatorsCriterias(st, discriminators, i, force) ==
    IF i > Len(discriminators)
    THEN st
    ELSE LET c == DiscriminatorCriteria(st.heap, discriminators[i])
             h == IF force = "" THEN c.heap ELSE CriteriaSetTableAlias(c.heap, c.id, force)
         IN  discriminatorsCriterias([heap |-> h, Criterias |-> Append(st.Criterias, c.id)],
                                    discriminators, i + 1, force)

\* buildPathCriterias lines 651-675: one turn of the second loop;
\* st holds this, pathCriterias and lastFkAlias
associationCriteria(st, p, index) ==
    LET this == st.this
        base == this.assoc[this.pe[p].Base]
        pc == st.pathCriterias[index + 1]
        dc == discriminatorsCriterias([heap |-> this.tok, Criterias |-> pc.Criterias],
                                     base.discriminators, 1,
                                     IF base.discriminatorTable = base.tableTo
                                     THEN "" ELSE st.lastFkAlias)
        g == AliasBagGetAlias(this.joinBag, this.pe[p].Derived)
    IN  IF base.discriminators # <<>>
        THEN [this |-> [this EXCEPT !.tok = dc.heap, !.joinBag = g.bag],
              pathCriterias |-> [st.pathCriterias EXCEPT ![index + 1] =
                                    [nil |-> FALSE, Criterias |-> dc.Criterias,
                                     Columns |-> pc.Columns]],
              lastFkAlias |-> g.alias]
        ELSE [st EXCEPT !.this.joinBag = g.bag, !.lastFkAlias = g.alias]

RECURSIVE associationCriterias(_, _, _)
associationCriterias(st, paths, i) ==
    IF i > Len(paths)
    THEN st
    ELSE associationCriterias(associationCriteria(st, paths[i], i), paths, i + 1)

\* DmlBase.buildPathCriterias(paths): slot 0 is the FROM table, slot i the
\* i-th path element.  Returns this and the slots.
buildPathCriterias(this, paths) ==
    LET first == pathElementCriterias(this, paths, 1, <<NilPathCriteria>>)
        st == associationCriterias([this |-> this, pathCriterias |-> first,
                                    lastFkAlias |-> this.tableAlias], paths, 1)
    IN  [this |-> st.this, pathCriterias |-> st.pathCriterias]

\* the criteria of every slot applied to the whole path (path instead of path[:index])
joinToSlotWholePath(st, paths, pathCriteria, index) ==
    IF pathCriteria.nil \/ pathCriteria.Criterias = <<>>
    THEN st
    ELSE IF index = 0
         THEN [st EXCEPT !.firstCriterias = pathCriteria.Criterias]
         ELSE LET conds == pathCriteria.Criterias \o st.firstCriterias
                  a == And(st.this.tok, conds)
              IN  [this |-> applyOn([st.this EXCEPT !.tok = a.heap], paths, a.id),
                   firstCriterias |-> <<>>]

\* joinTo lines 575-601: one turn of the loop over the slots;
\* st holds this and firstCriterias
joinToSlot(st, paths, pathCriteria, index) ==
    IF pathCriteria.nil \/ pathCriteria.Criterias = <<>>
    THEN st
    ELSE IF index = 0
         THEN [st EXCEPT !.firstCriterias = pathCriteria.Criterias]
         ELSE LET conds == pathCriteria.Criterias \o st.firstCriterias
                  a == And(st.this.tok, conds)
              IN  [this |-> applyOn([st.this EXCEPT !.tok = a.heap],
                                    SubSeq(paths, 1, index), a.id),
                   firstCriterias |-> <<>>]

RECURSIVE joinToSlots(_, _, _, _)
joinToSlots(st, paths, pathCriterias, index) ==
    IF index > Len(paths)
    THEN st
    ELSE joinToSlots(joinToSlot(st, paths, pathCriterias[index + 1], index),
                     paths, pathCriterias, index + 1)

\* DmlBase.joinTo(path, fetch)
joinTo(this, paths, fetch) ==
    IF Len(paths) > 0
    THEN LET b == buildPathCriterias(addJoin(this, paths, fetch), paths)
         IN  joinToSlots([this |-> b.this, firstCriterias |-> <<>>],
                         paths, b.pathCriterias, 0).this
    ELSE this

---------------------------------------------------------------------------
(* Session *)

NilAliasBag == [prefix |-> Nil, counter |-> 0, bag |-> EmptyMap]

\* DmlBase.alias(a)
alias(this, a) ==
    IF a # ""
    THEN [this EXCEPT !.joinBag = NewAliasBag(a \o "_" \o JOIN_PREFIX),
                      !.tableAlias = a,
                      !.rawSQL = FALSE]
    ELSE this

\* new(DmlBase): the zero value, over the heaps as they are
NewDmlBase(a, p, t, s) ==
    [assoc |-> a, pe |-> p, tok |-> t, table |-> "", tableAlias |-> "",
     joinBag |-> NilAliasBag, joins |-> <<>>, criteria |-> 0, parameters |-> EmptyMap,
     lastFkAlias |-> "", lastJoin |-> 0, discriminatorCriterias |-> <<>>,
     rawIndex |-> 0, cachedAssociation |-> <<>>, path |-> <<>>, rawSQL |-> FALSE,
     subqueries |-> s]

\* DmlBase.Super(DB, table)
Super(this, tbl) ==
    LET t == alias([this EXCEPT !.table = tbl], PREFIX \o "0")
    IN  [t EXCEPT !.discriminatorCriterias = GetCriterias(tbl),
                  !.parameters = EmptyMap]

\* DmlBase.SetTableAlias(alias)
SetTableAlias(this, a) == alias(this, a)

\* DmlBase.GetAliasForAssociation(association): this after the call and the alias
GetAliasForAssociation(this, association) ==
    IF this.joinBag # NilAliasBag
    THEN LET g == AliasBagGetAlias(this.joinBag, association)
         IN  [this |-> [this EXCEPT !.joinBag = g.bag], alias |-> g.alias]
    ELSE [this |-> this, alias |-> ""]

\* inner lines 553-556: a new element at the end of the current path
innerElement(this, inn, association) ==
    LET element == [Base |-> association, Inner |-> inn, PreferredAlias |-> "",
                    Criteria |-> 0, Columns |-> <<>>, Derived |-> 0]
    IN  [this EXCEPT !.pe = Append(this.pe, element),
                     !.path = Append(this.path, Len(this.pe) + 1)]

RECURSIVE innerLoop(_, _, _, _)
innerLoop(this, inn, associations, i) ==
    IF i > Len(associations)
    THEN this
    ELSE innerLoop(innerElement(this, inn, associations[i]), inn, associations, i + 1)

\* DmlBase.inner(inner, associations...)
inner(this, inn, associations) ==
    [innerLoop(this, inn, associations, 1) EXCEPT !.rawSQL = FALSE]

\* the subquery sessions a caller embeds in its criteria: Q1 keeps the alias
\* given at construction, Q2 is given the alias s; both filter on w = 9
Subquery(q) ==
    LET s0 == Super(NewDmlBase(SchemaAssociations, <<>>, TemplateTokens, EmptyMap), "T3")
        s1 == IF q = "Q2" THEN SetTableAlias(s0, "s") ELSE s0
    IN  where(s1, <<21>>)

SubqueryNames == {"Q1", "Q2"}

---------------------------------------------------------------------------
(* Inputs *)

\* the associations a caller hands to one inner call
RECURSIVE Paths(_)
Paths(n) ==
    IF n = 0
    THEN {<<>>}
    ELSE {Append(p, a) : p \in Paths(n - 1), a \in PathAssociations}

AssociationLists == UNION {Paths(n) : n \in 1..MaxPathLen}

\* inner (TRUE) or outer (FALSE) join
InnerFlags == {TRUE}

\* the fetch argument of joinTo: it is only recorded in the Join
FetchFlags == {FALSE}

\* the aliases a caller prefers for the target of a path ("" = none)
PreferredAliases == {"", "t0_j1"}

\* the criteria a caller attaches to the end of a path (0 = none)
ElementCriterias == {0, 12}

\* the restrictions a caller hands to where
Restrictions == {<<>>, <<12, 15>>, <<15, 12>>, <<12, 18>>}

\* the aliases a caller hands to SetTableAlias
TableAliases == {"", "x"}

---------------------------------------------------------------------------
(* State machine of one session *)

This ==
    [assoc |-> assoc, pe |-> pe, tok |-> tok, table |-> table, tableAlias |-> tableAlias,
     joinBag |-> joinBag, joins |-> joins, criteria |-> criteria,
     parameters |-> parameters, lastFkAlias |-> lastFkAlias, lastJoin |-> lastJoin,
     discriminatorCriterias |-> discriminatorCriterias, rawIndex |-> rawIndex,
     cachedAssociation |-> cachedAssociation, path |-> path, rawSQL |-> rawSQL,
     subqueries |-> subqueries]

Becomes(t) ==
    /\ assoc' = t.assoc
    /\ pe' = t.pe
    /\ tok' = t.tok
    /\ table' = t.table
    /\ tableAlias' = t.tableAlias
    /\ joinBag' = t.joinBag
    /\ joins' = t.joins
    /\ criteria' = t.criteria
    /\ parameters' = t.parameters
    /\ lastFkAlias' = t.lastFkAlias
    /\ lastJoin' = t.lastJoin
    /\ discriminatorCriterias' = t.discriminatorCriterias
    /\ rawIndex' = t.rawIndex
    /\ cachedAssociation' = t.cachedAssociation
    /\ path' = t.path
    /\ rawSQL' = t.rawSQL
    /\ subqueries' = t.subqueries

\* the fields of a DmlBase, without the heaps its pointers lead into
SessionFields(t) ==
    [table |-> t.table, tableAlias |-> t.tableAlias, joinBag |-> t.joinBag,
     joins |-> t.joins, criteria |-> t.criteria, parameters |-> t.parameters,
     lastFkAlias |-> t.lastFkAlias, lastJoin |-> t.lastJoin,
     discriminatorCriterias |-> t.discriminatorCriterias, rawIndex |-> t.rawIndex,
     cachedAssociation |-> t.cachedAssociation, path |-> t.path, rawSQL |-> t.rawSQL,
     subqueries |-> t.subqueries]

NoLog == <<<<>>, <<>>>>

NotBuilt == [done |-> FALSE, panic |-> FALSE, name |-> "", returned |-> FALSE,
             paramArray |-> <<>>]

\* no failure; nothing returned yet
NoFail == [code |-> "", message |-> <<>>]

NoOutcome ==
    [op |-> "", sql |-> "", params |-> <<>>,
     driver |-> [prepare |-> "", run |-> "", rows |-> 0, failAt |-> 0,
                 closeRows |-> "", closeStmt |-> ""],
     stmt |-> 0,
     returned |-> [nil |-> TRUE, values |-> <<>>, ok |-> FALSE, affected |-> 0, fail |-> NoFail]]

NoCalls == [joinTo |-> 0, where |-> 0, SetTableAlias |-> 0, GetAliasForAssociation |-> 0]

\* the session after NewDmlBase(DB, table) on the base table T0
NewSession ==
    Super(NewDmlBase(SchemaAssociations, <<>>, TemplateTokens,
                     [q \in SubqueryNames |-> Subquery(q).parameters]),
          "T0")

Init ==
    /\ assoc = NewSession.assoc
    /\ pe = NewSession.pe
    /\ tok = NewSession.tok
    /\ table = NewSession.table
    /\ tableAlias = NewSession.tableAlias
    /\ joinBag = NewSession.joinBag
    /\ joins = NewSession.joins
    /\ criteria = NewSession.criteria
    /\ parameters = NewSession.parameters
    /\ lastFkAlias = NewSession.lastFkAlias
    /\ lastJoin = NewSession.lastJoin
    /\ discriminatorCriterias = NewSession.discriminatorCriterias
    /\ rawIndex = NewSession.rawIndex
    /\ cachedAssociation = NewSession.cachedAssociation
    /\ path = NewSession.path
    /\ rawSQL = NewSession.rawSQL
    /\ subqueries = NewSession.subqueries
    /\ asked = EmptyMap
    /\ calls = NoCalls
    /\ names = <<>>
    /\ paramMap = EmptyMap
    /\ values = NotBuilt
    /\ peer = SessionFields(NewSession)
    /\ log = NoLog
    /\ connection = <<>>
    /\ outcome = NoOutcome

\* the caller starts a path: inner(inn, associations...)
CallInner(inn, associations) ==
    /\ calls.joinTo < MaxJoins
    /\ path = <<>>
    /\ Becomes(inner(This, inn, associations))
    /\ UNCHANGED <<asked, calls, buildVars, peerVars, dbaVars>>

\* the elements of the current path as the caller hands them to joinTo: with
\* the preferred alias and the criteria it attached to the end of the path
Attached(preferred, crit) ==
    [pe EXCEPT ![Last(path)].PreferredAlias = preferred,
               ![Last(path)].Criteria = crit]

\* the caller joins the current path (joinTo(this.path, fetch)) and starts a new one
CallJoinTo(fetch, preferred, crit) ==
    /\ calls.joinTo < MaxJoins
    /\ Len(path) > 0
    /\ Becomes([joinTo([This EXCEPT !.pe = Attached(preferred, crit)], path, fetch)
                   EXCEPT !.path = <<>>])
    /\ calls' = [calls EXCEPT !.joinTo = @ + 1]
    /\ UNCHANGED <<asked, buildVars, peerVars, dbaVars>>

CallWhere(restrictions) ==
    /\ calls.where < MaxWheres
    /\ path = <<>>
    /\ Becomes(where(This, restrictions))
    /\ calls' = [calls EXCEPT !.where = @ + 1]
    /\ UNCHANGED <<asked, buildVars, peerVars, dbaVars>>

CallSetTableAlias(a) ==
    /\ calls.SetTableAlias < MaxAliasChanges
    /\ path = <<>>
    /\ Becomes(SetTableAlias(This, a))
    /\ calls' = IF a = "" THEN calls ELSE [calls EXCEPT !.SetTableAlias = @ + 1]
    /\ UNCHANGED <<asked, buildVars, peerVars, dbaVars>>

\* the caller prefers an alias for the first (inner(a).As(preferred).inner(b))
\* or for the last element of the current path and joins the path
CallJoinToPreferring(first, preferred) ==
    /\ calls.joinTo < MaxJoins
    /\ Len(path) > 0
    /\ Becomes([joinTo([This EXCEPT !.pe[path[IF first THEN 1 ELSE Len(path)]].PreferredAlias =
                                      preferred],
                       path, FALSE)
                   EXCEPT !.path = <<>>])
    /\ calls' = [calls EXCEPT !.joinTo = @ + 1]
    /\ UNCHANGED <<asked, buildVars, peerVars, dbaVars>>

\* the derived associations the joins of the session hold, with the junction
\* associations of the many-to-many ones
Deriveds ==
    LET held == UNION {{pe[joins[j].associations[k]].Derived :
                           k \in DOMAIN joins[j].associations} : j \in DOMAIN joins}
    IN  (held \cup {assoc[d].FromM2M : d \in held} \cup {assoc[d].ToM2M : d \in held}) \ {0}

\* the caller asks for the alias of a derived association of one of its joins
CallGetAliasForAssociation(association) ==
    /\ calls.GetAliasForAssociation < MaxAsks
    /\ path = <<>>
    /\ LET r == GetAliasForAssociation(This, association)
       IN  /\ Becomes(r.this)
           /\ asked' = (association :> r.alias) @@ asked
    /\ calls' = [calls EXCEPT !.GetAliasForAssociation = @ + 1]
    /\ UNCHANGED <<buildVars, peerVars, dbaVars>>

Next ==
    \/ \E inn \in InnerFlags, associations \in AssociationLists :
          CallInner(inn, associations)
    \/ \E fetch \in FetchFlags, preferred \in PreferredAliases, crit \in ElementCriterias :
          CallJoinTo(fetch, preferred, crit)
    \/ \E restrictions \in Restrictions : CallWhere(restrictions)
    \/ \E a \in TableAliases : CallSetTableAlias(a)

Spec == Init /\ [][Next]_vars

\* the session with the caller asking for aliases; joins are plain
\* (no fetch, no criteria attached) and where is left out
NextAsk ==
    \/ \E inn \in InnerFlags, associations \in AssociationLists :
          CallInner(inn, associations)
    \/ \E first \in BOOLEAN, preferred \in PreferredAliases :
          CallJoinToPreferring(first, preferred)
    \/ \E a \in TableAliases : CallSetTableAlias(a)
    \/ \E association \in Deriveds : CallGetAliasForAssociation(association)

SpecAsk == Init /\ [][NextAsk]_vars

\* the session with the caller joining paths with and without fetch; no
\* criteria are attached and where is left out
NextFetch ==
    \/ \E inn \in InnerFlags, associations \in AssociationLists :
          CallInner(inn, associations)
    \/ \E fetch \in BOOLEAN, preferred \in PreferredAliases :
          CallJoinTo(fetch, preferred, 0)
    \/ \E a \in TableAliases : CallSetTableAlias(a)

SpecFetch == Init /\ [][NextFetch]_vars

\* the base tables of the sessions of SpecWhere: T0 has a discriminator, T3 has none
BaseTables == {"T0", "T3"}

\* the session after NewDmlBase(DB, table) on the base table tbl
NewSessionOn(tbl) ==
    Super(NewDmlBase(SchemaAssociations, <<>>, TemplateTokens,
                     [q \in SubqueryNames |-> Subquery(q).parameters]),
          tbl)

InitWhere ==
    \E tbl \in BaseTables :
        /\ assoc = NewSessionOn(tbl).assoc
        /\ pe = NewSessionOn(tbl).pe
        /\ tok = NewSessionOn(tbl).tok
        /\ table = NewSessionOn(tbl).table
        /\ tableAlias = NewSessionOn(tbl).tableAlias
        /\ joinBag = NewSessionOn(tbl).joinBag
        /\ joins = NewSessionOn(tbl).joins
        /\ criteria = NewSessionOn(tbl).criteria
        /\ parameters = NewSessionOn(tbl).parameters
        /\ lastFkAlias = NewSessionOn(tbl).lastFkAlias
        /\ lastJoin = NewSessionOn(tbl).lastJoin
        /\ discriminatorCriterias = NewSessionOn(tbl).discriminatorCriterias
        /\ rawIndex = NewSessionOn(tbl).rawIndex
        /\ cachedAssociation = NewSessionOn(tbl).cachedAssociation
        /\ path = NewSessionOn(tbl).path
        /\ rawSQL = NewSessionOn(tbl).rawSQL
        /\ subqueries = NewSessionOn(tbl).subqueries
        /\ asked = EmptyMap
        /\ calls = NoCalls
        /\ names = <<>>
        /\ paramMap = EmptyMap
        /\ values = NotBuilt
        /\ peer = SessionFields(NewSession)
        /\ log = NoLog
        /\ connection = <<>>
        /\ outcome = NoOutcome

\* one where call of a sequence of where calls
CallWhereInSequence(restrictions) ==
    /\ calls.where < MaxWhereSequence
    /\ path = <<>>
    /\ Becomes(where(This, restrictions))
    /\ calls' = [calls EXCEPT !.where = @ + 1]
    /\ UNCHANGED <<asked, buildVars, peerVars, dbaVars>>

\* the session with the caller setting its filter again and again
NextWhere ==
    \/ \E restrictions \in Restrictions : CallWhereInSequence(restrictions)
    \/ \E a \in TableAliases : CallSetTableAlias(a)

SpecWhere == InitWhere /\ [][NextWhere]_vars

\* paths over an association without discriminators to a table without
\* discriminators: MF followed on its own, from T0 to J
PlainAssociationLists == {<<3>>}

\* the SQL text of the session is assembled and kept in rawSQL until a change
\* of the session resets it
StoreRawSQL ==
    /\ ~rawSQL
    /\ rawSQL' = TRUE
    /\ UNCHANGED <<assoc, pe, tok, table, tableAlias, joinBag, joins, criteria, parameters,
                   lastFkAlias, lastJoin, discriminatorCriterias, rawIndex,
                   cachedAssociation, path, subqueries, asked, calls, buildVars, peerVars, dbaVars>>

\* the session with its SQL text assembled between the calls
NextCache ==
    \/ \E inn \in InnerFlags, associations \in AssociationLists \cup PlainAssociationLists :
          CallInner(inn, associations)
    \/ \E crit \in ElementCriterias : CallJoinTo(FALSE, "", crit)
    \/ \E restrictions \in Restrictions : CallWhere(restrictions)
    \/ \E a \in TableAliases : CallSetTableAlias(a)
    \/ StoreRawSQL

SpecCache == Init /\ [][NextCache]_vars

---------------------------------------------------------------------------
(* RawSql.BuildValues *)

RECURSIVE MakeArray(_)
MakeArray(n) == IF n = 0 THEN <<>> ELSE Append(MakeArray(n - 1), Nil)

\* BuildValues without the check of ok: a missing name leaves the nil of make()
RECURSIVE BuildValuesUnchecked(_, _, _, _)
BuildValuesUnchecked(nms, pm, i, paramArray) ==
    IF i > Len(nms)
    THEN [panic |-> FALSE, name |-> "", returned |-> TRUE, paramArray |-> paramArray]
    ELSE BuildValuesUnchecked(nms, pm, i + 1,
             [paramArray EXCEPT ![i] = IF nms[i] \in DOMAIN pm THEN pm[nms[i]] ELSE Nil])

\* BuildValues lines 412-419: the loop over Names, from index i on
RECURSIVE BuildValuesLoop(_, _, _, _)
BuildValuesLoop(nms, pm, i, paramArray) ==
    IF i > Len(nms)
    THEN [panic |-> FALSE, name |-> "", returned |-> TRUE, paramArray |-> paramArray]
    ELSE IF nms[i] \in DOMAIN pm
         THEN BuildValuesLoop(nms, pm, i + 1, [paramArray EXCEPT ![i] = pm[nms[i]]])
         ELSE [panic |-> TRUE, name |-> nms[i], returned |-> FALSE, paramArray |-> <<>>]

\* RawSql.BuildValues(paramMap): the array, or the panic naming the parameter
BuildValues(nms, pm) == BuildValuesLoop(nms, pm, 1, MakeArray(Len(nms)))

\* the names a statement can declare and the values a caller can supply
ParameterNames == {"a", "b", "c"}

ParameterValues == {"1", Nil}

RECURSIVE NameLists(_)
NameLists(n) ==
    IF n = 0
    THEN {<<>>}
    ELSE NameLists(n - 1) \cup
         {Append(l, k) : l \in {m \in NameLists(n - 1) : Len(m) = n - 1}, k \in ParameterNames}

ParamMaps == UNION {[S -> ParameterValues] : S \in SUBSET ParameterNames}

InitBuildValues ==
    /\ assoc = NewSession.assoc
    /\ pe = NewSession.pe
    /\ tok = NewSession.tok
    /\ table = NewSession.table
    /\ tableAlias = NewSession.tableAlias
    /\ joinBag = NewSession.joinBag
    /\ joins = NewSession.joins
    /\ criteria = NewSession.criteria
    /\ parameters = NewSession.parameters
    /\ lastFkAlias = NewSession.lastFkAlias
    /\ lastJoin = NewSession.lastJoin
    /\ discriminatorCriterias = NewSession.discriminatorCriterias
    /\ rawIndex = NewSession.rawIndex
    /\ cachedAssociation = NewSession.cachedAssociation
    /\ path = NewSession.path
    /\ rawSQL = NewSession.rawSQL
    /\ subqueries = NewSession.subqueries
    /\ asked = EmptyMap
    /\ calls = NoCalls
    /\ names \in NameLists(MaxNames)
    /\ paramMap \in ParamMaps
    /\ values = NotBuilt
    /\ peer = SessionFields(NewSession)
    /\ log = NoLog
    /\ connection = <<>>
    /\ outcome = NoOutcome

CallBuildValues ==
    /\ ~values.done
    /\ LET r == BuildValues(names, paramMap)
       IN  values' = [done |-> TRUE, panic |-> r.panic, name |-> r.name,
                      returned |-> r.returned, paramArray |-> r.paramArray]
    /\ UNCHANGED <<sessionVars, names, paramMap>>

NextBuildValues == CallBuildValues

SpecBuildValues == InitBuildValues /\ [][NextBuildValues]_vars

----------------------------------------------------------------------------
(* SimpleDBA: statements prepared, run and closed on the connection *)

FAULT_PREP_STATEMENT == "FAULT_PREP_STATEMENT"
FAULT_QUERY == "FAULT_QUERY"
FAULT_EXEC_STATEMENT == "FAULT_EXEC_STATEMENT"
FAULT_TRANSFORM == "FAULT_TRANSFORM"
FAULT_PARSE_STATEMENT == "FAULT_PARSE_STATEMENT"

\* a statement prepared on the connection: whether Query or Exec was called on
\* it and with which parameters, whether Close was called on it, its row set
\* (none, open, or closed once Close was called on it) and the number of rows
\* Next moved to
NewStmt(sql) ==
    [sql |-> sql, params |-> <<>>, executed |-> FALSE, closed |-> FALSE,
     rows |-> "none", next |-> 0]

\* what the database and the row transformer do during one operation: the
\* error of each call ("" for none), the number of rows of the result, and
\* the row on which the transformer or the scan fails (0 for none)
Driver(prepare, run, rows, failAt, closeRows, closeStmt) ==
    [prepare |-> prepare, run |-> run, rows |-> rows, failAt |-> failAt,
     closeRows |-> closeRows, closeStmt |-> closeStmt]

\* Prepare fails; or Query or Exec fails and the statement is closed; or the
\* statement runs, the rows are read and rows and statement are closed
Drivers ==
    {Driver("prepare failed", "", 0, 0, "", "")}
        \cup {Driver("", "run failed", 0, 0, "", d) : d \in {"", "stmt close failed"}}
        \cup UNION {{Driver("", "", n, k, c, d) :
                        k \in 0..n,
                        c \in {"", "rows close failed"}, d \in {"", "stmt close failed"}} :
                    n \in 0..MaxRows}

\* connection.Prepare(sql): the connection after the call, the statement (0 for nil), the error
Prepare(c, sql, driver) ==
    IF driver.prepare # ""
    THEN [c |-> c, stmt |-> 0, err |-> driver.prepare]
    ELSE [c |-> Append(c, NewStmt(sql)), stmt |-> Len(c) + 1, err |-> ""]

\* stmt.Query(params...): the rows are those of the statement (0 for nil)
StmtQuery(c, stmt, params, driver) ==
    IF driver.run # ""
    THEN [c |-> [c EXCEPT ![stmt].executed = TRUE, ![stmt].params = params],
          rows |-> 0, err |-> driver.run]
    ELSE [c |-> [c EXCEPT ![stmt].executed = TRUE, ![stmt].params = params,
                          ![stmt].rows = "open"],
          rows |-> stmt, err |-> ""]

\* stmt.Exec(params...)
StmtExec(c, stmt, params, driver) ==
    [c |-> [c EXCEPT ![stmt].executed = TRUE, ![stmt].params = params],
     affected |-> IF driver.run # "" THEN 0 ELSE driver.rows,
     err |-> driver.run]

\* stmt.Close()
StmtClose(c, stmt, driver) ==
    [c |-> [c EXCEPT ![stmt].closed = TRUE], err |-> driver.closeStmt]

\* rows.Close()
RowsClose(c, rows, driver) ==
    [c |-> [c EXCEPT ![rows].rows = "closed"], err |-> driver.closeRows]

\* closeResources(rows, stmt)
closeResources(c, rows, stmt, driver) ==
    LET r == IF rows # 0 THEN RowsClose(c, rows, driver) ELSE [c |-> c, err |-> ""]
    IN  IF r.err # ""
        THEN r
        ELSE IF stmt # 0
             THEN StmtClose(r.c, stmt, driver)
             ELSE [c |-> r.c, err |-> ""]

\* fmt.Sprintf("%v", params): the values between brackets, separated by spaces
RECURSIVE FormatFrom(_, _)
FormatFrom(params, i) ==
    IF i > Len(params)
    THEN ""
    ELSE (IF i > 1 THEN " " ELSE "") \o params[i] \o FormatFrom(params, i + 1)

Format(params) == "[" \o FormatFrom(params, 1) \o "]"

\* NewPersistenceFail(code, message); the message is kept as the pieces the
\* string buffer put together
NewPersistenceFail(code, message) == [code |-> code, message |-> message]

\* a plain error handed on as it is
PlainError(cause) == [code |-> "", message |-> <<cause>>]

\* message that leaves out the SQL text and the parameters
rethrowCauseOnly(code, cause, sql, params) == NewPersistenceFail(code, <<cause>>)

\* rethrow(code, cause, sql, params...): params is nil when none were given
rethrow(code, cause, sql, params) ==
    LET msg == <<cause, "\nSQL: ", sql, "\nParameters: ">>
    IN  NewPersistenceFail(code, IF params # <<>> THEN Append(msg, Format(params)) ELSE msg)

\* SimpleDBA.fetchRows(sql, params...)
fetchRows(c, sql, params, driver) ==
    LET p == Prepare(c, sql, driver)
    IN  IF p.err # ""
        THEN [c |-> p.c, rows |-> 0, stmt |-> 0,
              fail |-> rethrow(FAULT_PREP_STATEMENT, p.err, sql, params)]
        ELSE LET q == StmtQuery(p.c, p.stmt, params, driver)
             IN  IF q.err # ""
                 THEN [c |-> StmtClose(q.c, p.stmt, driver).c, rows |-> 0, stmt |-> 0,
                       fail |-> rethrow(FAULT_QUERY, q.err, sql, params)]
                 ELSE [c |-> q.c, rows |-> q.rows, stmt |-> p.stmt, fail |-> NoFail]

\* SimpleDBA.execute(sql, params...)
execute(c, sql, params, driver) ==
    LET p == Prepare(c, sql, driver)
    IN  IF p.err # ""
        THEN [c |-> p.c, affected |-> 0, stmt |-> 0,
              fail |-> rethrow(FAULT_PREP_STATEMENT, p.err, sql, params)]
        ELSE LET e == StmtExec(p.c, p.stmt, params, driver)
             IN  IF e.err # ""
                 THEN [c |-> StmtClose(e.c, p.stmt, driver).c, affected |-> 0, stmt |-> 0,
                       fail |-> rethrow(FAULT_EXEC_STATEMENT, e.err, sql, params)]
                 ELSE [c |-> e.c, affected |-> e.affected, stmt |-> p.stmt, fail |-> NoFail]

\* for rows.Next() { ... transformer(rows) ... } of QueryCollection (lines
\* 84-90), Query (107-113) and QueryClosure (130-135): the connection after
\* the loop, the instances transformed, the error that ended it
RECURSIVE transformRows(_, _, _, _, _)
transformRows(c, rows, driver, i, results) ==
    IF i > driver.rows
    THEN [c |-> c, results |-> results, err |-> ""]
    ELSE LET moved == [c EXCEPT ![rows].next = i]
         IN  IF driver.failAt = i
             THEN [c |-> moved, results |-> results, err |-> "transform failed"]
             ELSE transformRows(moved, rows, driver, i + 1, Append(results, i))

\* what an operation returns: a list (nil or not), a flag, a count, a failure
Returned(nil, list, ok, affected, fail) ==
    [nil |-> nil, values |-> list, ok |-> ok, affected |-> affected, fail |-> fail]

\* the three SELECT operations that hand the rows to a transformer differ in
\* the code of the failure and in returning the list
queryWith(c, sql, params, driver, code, list) ==
    LET f == fetchRows(c, sql, params, driver)
    IN  IF f.fail # NoFail
        THEN [c |-> f.c, stmt |-> f.stmt, returned |-> Returned(TRUE, <<>>, FALSE, 0, f.fail)]
        ELSE LET loop == transformRows(f.c, f.rows, driver, 1, <<>>)
                 deferred == closeResources(loop.c, f.rows, f.stmt, driver)
             IN  [c |-> deferred.c, stmt |-> f.stmt,
                  returned |->
                      IF loop.err # ""
                      THEN Returned(TRUE, <<>>, FALSE, 0, rethrow(code, loop.err, sql, params))
                      ELSE Returned(~list, IF list THEN loop.results ELSE <<>>, FALSE, 0, NoFail)]

\* SimpleDBA.QueryCollection(sql, rt, params...)
QueryCollection(c, sql, params, driver) ==
    queryWith(c, sql, params, driver, FAULT_TRANSFORM, TRUE)

\* SimpleDBA.Query(sql, transformer, params...)
Query(c, sql, params, driver) ==
    queryWith(c, sql, params, driver, FAULT_PARSE_STATEMENT, TRUE)

\* SimpleDBA.QueryClosure(query, transformer, params...)
QueryClosure(c, sql, params, driver) ==
    queryWith(c, sql, params, driver, FAULT_PARSE_STATEMENT, FALSE)

\* SimpleDBA.QueryRow(sql, params, dest...)
QueryRow(c, sql, params, driver) ==
    LET f == fetchRows(c, sql, params, driver)
    IN  IF f.fail # NoFail
        THEN [c |-> f.c, stmt |-> f.stmt, returned |-> Returned(TRUE, <<>>, FALSE, 0, f.fail)]
        ELSE LET some == driver.rows > 0
                 moved == IF some THEN [f.c EXCEPT ![f.rows].next = 1] ELSE f.c
                 deferred == closeResources(moved, f.rows, f.stmt, driver)
             IN  [c |-> deferred.c, stmt |-> f.stmt,
                  returned |->
                      IF some /\ driver.failAt = 1
                      THEN Returned(TRUE, <<>>, FALSE, 0, PlainError("transform failed"))
                      ELSE Returned(TRUE, <<>>, some, 0, NoFail)]

\* Update and Insert differ in returning the number of rows affected
executeWith(c, sql, params, driver, count) ==
    LET e == execute(c, sql, params, driver)
    IN  IF e.fail # NoFail
        THEN [c |-> e.c, stmt |-> e.stmt, returned |-> Returned(TRUE, <<>>, FALSE, 0, e.fail)]
        ELSE LET deferred == closeResources(e.c, 0, e.stmt, driver)
             IN  [c |-> deferred.c, stmt |-> e.stmt,
                  returned |-> Returned(TRUE, <<>>, FALSE,
                                        IF count THEN e.affected ELSE 0, NoFail)]

\* SimpleDBA.Update(sql, params...)
Update(c, sql, params, driver) == executeWith(c, sql, params, driver, TRUE)

\* SimpleDBA.Insert(sql, params...)
Insert(c, sql, params, driver) == executeWith(c, sql, params, driver, FALSE)

\* the SQL texts and parameter lists of the callers
Statements == {"select"}

ParameterLists == {<<>>, <<"7", "9">>}

\* a caller's operation returns: the connection is as the operation left it,
\* and the call is remembered with what it returned
Returns(op, sql, params, driver, r) ==
    /\ Len(connection) < MaxStatements
    /\ connection' = r.c
    /\ outcome' = [op |-> op, sql |-> sql, params |-> params, driver |-> driver,
                   stmt |-> IF Len(r.c) > Len(connection) THEN Len(r.c) ELSE 0,
                   returned |-> r.returned]
    /\ UNCHANGED <<assoc, pe, tok, table, tableAlias, joinBag, joins, criteria, parameters,
                   lastFkAlias, lastJoin, discriminatorCriterias, rawIndex,
                   cachedAssociation, path, rawSQL, subqueries, asked, calls,
                   buildVars, peerVars>>

CallQueryCollection(sql, params, driver) ==
    Returns("QueryCollection", sql, params, driver, QueryCollection(connection, sql, params, driver))

CallQuery(sql, params, driver) ==
    Returns("Query", sql, params, driver, Query(connection, sql, params, driver))

CallQueryClosure(sql, params, driver) ==
    Returns("QueryClosure", sql, params, driver, QueryClosure(connection, sql, params, driver))

CallQueryRow(sql, params, driver) ==
    Returns("QueryRow", sql, params, driver, QueryRow(connection, sql, params, driver))

CallUpdate(sql, params, driver) ==
    Returns("Update", sql, params, driver, Update(connection, sql, params, driver))

CallInsert(sql, params, driver) ==
    Returns("Insert", sql, params, driver, Insert(connection, sql, params, driver))

NextDBA ==
    \E sql \in Statements, params \in ParameterLists, driver \in Drivers :
        \/ CallQueryCollection(sql, params, driver)
        \/ CallQuery(sql, params, driver)
        \/ CallQueryClosure(sql, params, driver)
        \/ CallQueryRow(sql, params, driver)
        \/ CallUpdate(sql, params, driver)
        \/ CallInsert(sql, params, driver)

SpecDBA == Init /\ [][NextDBA]_vars

---------------------------------------------------------------------------
(* Two sessions over the same schema metadata, their calls interleaved *)

Sessions == {1, 2}

\* the session s as a DmlBase over the shared heaps
Session(s) ==
    IF s = 1
    THEN This
    ELSE [assoc |-> assoc, pe |-> pe, tok |-> tok] @@ peer

\* the session s becomes t; the other session keeps its fields
SessionBecomes(s, t) ==
    IF s = 1
    THEN /\ Becomes(t)
         /\ peer' = peer
    ELSE /\ assoc' = t.assoc
         /\ pe' = t.pe
         /\ tok' = t.tok
         /\ peer' = SessionFields(t)
         /\ UNCHANGED <<table, tableAlias, joinBag, joins, criteria, parameters,
                        lastFkAlias, lastJoin, discriminatorCriterias, rawIndex,
                        cachedAssociation, path, rawSQL, subqueries>>

\* one call of a session, as the log keeps it
Operation(name, associations, preferred, crit, restrictions) ==
    [name |-> name, associations |-> associations, preferred |-> preferred,
     crit |-> crit, restrictions |-> restrictions]

\* the caller attaches the preferred alias and the criteria to the end of the
\* current path of t, joins the path (joinTo(this.path, fetch)) and starts a new one
joinToPath(t, fetch, preferred, crit) ==
    LET attached == [t.pe EXCEPT ![Last(t.path)].PreferredAlias = preferred,
                                 ![Last(t.path)].Criteria = crit]
    IN  [joinTo([t EXCEPT !.pe = attached], t.path, fetch) EXCEPT !.path = <<>>]

\* the session t after the call op
Perform(t, op) ==
    CASE op.name = "inner" -> inner(t, TRUE, op.associations)
      [] op.name = "joinTo" -> joinToPath(t, FALSE, op.preferred, op.crit)
      [] op.name = "where" -> where(t, op.restrictions)

\* the session s makes the call op and becomes t
SessionCall(s, op, t) ==
    /\ Len(log[1]) + Len(log[2]) < MaxSessionCalls
    /\ SessionBecomes(s, t)
    /\ log' = [log EXCEPT ![s] = Append(@, op)]
    /\ UNCHANGED <<asked, calls, buildVars, dbaVars>>

SessionInner(s, associations) ==
    /\ Session(s).path = <<>>
    /\ Len(log[1]) + Len(log[2]) + 1 < MaxSessionCalls
    /\ SessionCall(s, Operation("inner", associations, "", 0, <<>>),
                   inner(Session(s), TRUE, associations))

SessionJoinTo(s, preferred, crit) ==
    /\ Len(Session(s).path) > 0
    /\ SessionCall(s, Operation("joinTo", <<>>, preferred, crit, <<>>),
                   joinToPath(Session(s), FALSE, preferred, crit))

SessionWhere(s, restrictions) ==
    /\ Session(s).path = <<>>
    /\ SessionCall(s, Operation("where", <<>>, "", 0, restrictions),
                   where(Session(s), restrictions))

NextSessions ==
    \/ \E s \in Sessions, associations \in AssociationLists : SessionInner(s, associations)
    \/ \E s \in Sessions, preferred \in PreferredAliases, crit \in ElementCriterias :
          SessionJoinTo(s, preferred, crit)
    \/ \E s \in Sessions, restrictions \in Restrictions : SessionWhere(s, restrictions)

SpecSessions == Init /\ [][NextSessions]_vars

---------------------------------------------------------------------------
(* Vocabulary of the properties *)

Range(f) == {f[i] : i \in DOMAIN f}

\* the tokens of the tree rooted at id
RECURSIVE Nodes(_, _)
Nodes(heap, id) ==
    {id} \cup UNION {Nodes(heap, heap[id].members[i]) : i \in DOMAIN heap[id].members}

Max(S) == CHOOSE n \in S : \A m \in S : m <= n

\* the tree rooted at id as a value free of heap addresses (empty for nil)
RECURSIVE TreeView(_, _)
TreeView(heap, id) ==
    IF id = 0
    THEN <<>>
    ELSE <<[op |-> heap[id].op, value |-> heap[id].value, alias |-> heap[id].alias,
            members |-> [i \in DOMAIN heap[id].members |->
                            TreeView(heap, heap[id].members[i])]]>>

\* the association d, with its junction associations, free of heap addresses
RECURSIVE AssociationView(_, _)
AssociationView(heap, d) ==
    IF d = 0
    THEN <<>>
    ELSE <<[name |-> heap[d].name, aliasFrom |-> heap[d].aliasFrom,
            aliasTo |-> heap[d].aliasTo, relations |-> heap[d].relations,
            fromM2M |-> AssociationView(heap, heap[d].FromM2M),
            toM2M |-> AssociationView(heap, heap[d].ToM2M)]>>

\* the path elements of a list, free of heap addresses
PathView(t, elements) ==
    [i \in DOMAIN elements |->
        [Base |-> t.pe[elements[i]].Base,
         Inner |-> t.pe[elements[i]].Inner,
         PreferredAlias |-> t.pe[elements[i]].PreferredAlias,
         Derived |-> AssociationView(t.assoc, t.pe[elements[i]].Derived),
         Criteria |-> TreeView(t.tok, t.pe[elements[i]].Criteria)]]

\* what a session holds, free of heap addresses: joins, aliases, cached paths,
\* criteria, parameters
SessionView(t) ==
    [table |-> t.table,
     tableAlias |-> t.tableAlias,
     prefix |-> t.joinBag.prefix,
     counter |-> t.joinBag.counter,
     aliases |-> {[association |-> AssociationView(t.assoc, k), alias |-> t.joinBag.bag[k]] :
                     k \in DOMAIN t.joinBag.bag},
     joins |-> [j \in DOMAIN t.joins |->
                   [associations |-> PathView(t, t.joins[j].associations),
                    fetch |-> t.joins[j].fetch]],
     criteria |-> TreeView(t.tok, t.criteria),
     parameters |-> t.parameters,
     lastFkAlias |-> t.lastFkAlias,
     lastJoin |-> t.lastJoin,
     rawIndex |-> t.rawIndex,
     cachedAssociation |-> [c \in DOMAIN t.cachedAssociation |->
                               PathView(t, t.cachedAssociation[c])],
     path |-> PathView(t, t.path),
     rawSQL |-> t.rawSQL]

\* the session that performs the calls ops alone, from construction
RECURSIVE Replay(_, _, _)
Replay(ops, i, t) ==
    IF i > Len(ops) THEN t ELSE Replay(ops, i + 1, Perform(t, ops[i]))

Alone(ops) == Replay(ops, 1, NewSession)

\* a step that is a joinTo call on the current path
JoinToStep == calls'.joinTo = calls.joinTo + 1

\* number of leading elements of the requested path p that follow the same
\* schema-level associations as the leading elements of the cached path c
SharedLen(c, p) ==
    LET Shares(n) == /\ n <= Len(c)
                     /\ n <= Len(p)
                     /\ \A i \in 1..n : pe[c[i]].Base = pe[p[i]].Base
    IN  CHOOSE n \in 0..Len(p) : Shares(n) /\ ~Shares(n + 1)

\* number of leading elements of the requested path resolved earlier in the session
ReusedLen(p) == Max({0} \cup {SharedLen(c, p) : c \in Range(cachedAssociation)})

\* the associations that carry the aliases of a derived association: itself,
\* or its two junction associations
Hops(heap, d) == {d, heap[d].FromM2M, heap[d].ToM2M} \ {0}

\* the destination alias stamped on a derived association (on its to-junction
\* hop when it is many-to-many)
StampedAlias(heap, d) ==
    IF IsMany2Many(heap[d]) THEN heap[heap[d].ToM2M].aliasTo ELSE heap[d].aliasTo

\* the association that carries the destination alias of a derived association
DestinationHop(heap, d) == IF IsMany2Many(heap[d]) THEN heap[d].ToM2M ELSE d

\* the origin alias stamped on a derived association (on its from-junction
\* hop when it is many-to-many)
OriginAlias(heap, d) ==
    IF IsMany2Many(heap[d]) THEN heap[heap[d].FromM2M].aliasFrom ELSE heap[d].aliasFrom

\* the path element p is the one its derived association was made for
FirstResolved(p) == \A q \in DOMAIN pe : q < p => pe[q].Derived # pe[p].Derived

\* the base table aliases a session can have
BaseAliases == {PREFIX \o "0"} \cup (TableAliases \ {""})

\* the column tokens of the tree rooted at id (none for nil)
ColumnTokens(id) ==
    IF id = 0 THEN {} ELSE {n \in Nodes(tok, id) : tok[n].op = TOKEN_COLUMN}

\* the columns the discriminators of a table are on
DiscriminatorColumns(tbl) ==
    {TemplateTokens[TemplateTokens[c].members[1]].value : c \in Range(GetCriterias(tbl))}

\* the tables the associations of a path lead to
JoinedTables == {SchemaAssociations[a].tableTo : a \in PathAssociations}

\* the tokens of the trees the session owns: its WHERE criteria and the ON
\* criteria of its path elements
SessionTokens ==
    UNION {Nodes(tok, id) : id \in ({criteria} \cup {pe[p].Criteria : p \in DOMAIN pe}) \ {0}}

ParamTokens == {n \in DOMAIN tok : tok[n].op = TOKEN_PARAM}

\* the literal compared with each column in the criteria of the schema and of the caller
Literal(column) ==
    CASE column = "deleted" -> "0"
      [] column = "active" -> "1"
      [] column = "kind" -> "2"
      [] column = "type" -> "3"
      [] column = "cat" -> "4"
      [] column = "x" -> "7"
      [] column = "w" -> "9"
      [] OTHER -> ""

---------------------------------------------------------------------------
(* Properties *)

\* C1 (as claimed): a joinTo call gives the leading elements of the path that
\* follow a path resolved earlier the derived associations made then, leaves
\* the aliases stamped on them as they are, allocates no new alias for them,
\* and clones an association only for the other elements.
PrefixReuse ==
    [][JoinToStep =>
        /\ \A c \in Range(cachedAssociation) : \A i \in 1..SharedLen(c, path) :
              LET d == pe[c[i]].Derived
              IN  /\ pe'[path[i]].Derived = d
                  /\ \A a \in Hops(assoc, d) :
                        /\ assoc'[a] = assoc[a]
                        /\ a \in DOMAIN joinBag'.bag =>
                              /\ a \in DOMAIN joinBag.bag
                              /\ joinBag'.bag[a] = joinBag.bag[a]
        /\ Len(assoc') = Len(assoc)
              + Cardinality({i \in (ReusedLen(path) + 1)..Len(path) :
                                ~IsMany2Many(assoc[pe[path[i]].Base])})
              + 3 * Cardinality({i \in (ReusedLen(path) + 1)..Len(path) :
                                    IsMany2Many(assoc[pe[path[i]].Base])})
    ]_vars

\* C2 (as claimed): two distinct associations of the alias bag never have the
\* same alias, and no alias of the bag is the base table alias.
AliasUniqueness ==
    /\ \A a, b \in DOMAIN joinBag.bag : a # b => joinBag.bag[a] # joinBag.bag[b]
    /\ \A a \in DOMAIN joinBag.bag : joinBag.bag[a] # tableAlias

\* C3 (as claimed): an association the caller asked the alias of keeps, at
\* every later call of GetAliasForAssociation, the alias returned the first time.
AliasDeterminism ==
    [][\A a \in DOMAIN asked : asked'[a] = asked[a]]_vars

\* C4 (as claimed): a joinTo call stamps, for each newly resolved many-to-many
\* element, exactly its two junction hops, with two distinct destination
\* aliases, the first hop ending where the second starts and starting at the
\* alias the chain had reached before the element.
ManyToManyExpansion ==
    [][JoinToStep =>
        \A i \in (ReusedLen(path) + 1)..Len(path) :
            IsMany2Many(assoc[pe[path[i]].Base]) =>
                LET d == pe'[path[i]].Derived
                    fromFk == assoc'[d].FromM2M
                    toFk == assoc'[d].ToM2M
                    reached == IF i = 1
                               THEN tableAlias
                               ELSE StampedAlias(assoc', pe'[path[i - 1]].Derived)
                IN  /\ assoc'[d].aliasFrom = "" /\ assoc'[d].aliasTo = ""
                    /\ assoc'[fromFk].aliasTo # "" /\ assoc'[toFk].aliasTo # ""
                    /\ assoc'[fromFk].aliasTo # assoc'[toFk].aliasTo
                    /\ assoc'[fromFk].aliasTo = assoc'[toFk].aliasFrom
                    /\ assoc'[fromFk].aliasFrom = reached
    ]_vars

\* C5: the associations of the schema, the junction associations included,
\* stay as the application built them (no alias on them or on their
\* relations) and none of them is a key of the alias bag.
SchemaNeverAliased ==
    \A a \in DOMAIN SchemaAssociations :
        /\ assoc[a] = SchemaAssociations[a]
        /\ a \notin DOMAIN joinBag.bag

\* C5 witness: a many-to-many and a simple association were resolved: their
\* clones carry aliases
SchemaNeverAliasedWitness ==
    /\ \E d \in DOMAIN assoc :
          /\ IsMany2Many(assoc[d])
          /\ assoc[assoc[d].FromM2M].aliasTo # ""
          /\ assoc[assoc[d].ToM2M].relations[1].to # ""
    /\ \E d \in DOMAIN assoc : ~IsMany2Many(assoc[d]) /\ assoc[d].name = "A"
                                 /\ assoc[d].aliasTo # ""
    /\ joinBag.bag # EmptyMap

\* C6 (as claimed): the ON criteria of every hop of every join hold each
\* discriminator of the hop's destination table, aliased to the destination
\* alias stamped on the hop, and no discriminator of another table; the WHERE
\* criteria hold no discriminator of a joined table.
DiscriminatorPlacement ==
    /\ \A j \in DOMAIN joins : \A i \in DOMAIN joins[j].associations :
          LET p == joins[j].associations[i]
              tbl == assoc[pe[p].Base].tableTo
          IN  /\ \A column \in DiscriminatorColumns(tbl) :
                    \E n \in ColumnTokens(pe[p].Criteria) :
                        /\ tok[n].value = column
                        /\ tok[n].alias = StampedAlias(assoc, pe[p].Derived)
              /\ \A n \in ColumnTokens(pe[p].Criteria) : \A other \in JoinedTables :
                    tok[n].value \in DiscriminatorColumns(other) =>
                        tok[n].value \in DiscriminatorColumns(tbl)
    /\ \A n \in ColumnTokens(criteria) : \A other \in JoinedTables :
          tok[n].value \notin DiscriminatorColumns(other)

\* C7 (as claimed): the trees the session rewrote hold no raw literal, every
\* rewritten literal has a name of its own, which is a key of the parameter
\* map, and the key maps to the literal.
RawRewrite ==
    /\ \A n \in SessionTokens : tok[n].op # TOKEN_RAW
    /\ Cardinality({tok[n].value : n \in ParamTokens}) = Cardinality(ParamTokens)
    /\ \A n \in ParamTokens : tok[n].value \in DOMAIN parameters
    /\ \A e \in DOMAIN tok :
          (tok[e].op = TOKEN_EQ /\ tok[tok[e].members[2]].op = TOKEN_PARAM) =>
              parameters[tok[tok[e].members[2]].value] = Literal(tok[tok[e].members[1]].value)

\* C8 (as claimed): for every subquery in a tree the session rewrote, each
\* parameter of the subquery is in the session's parameter map with the
\* subquery's value, and no name generated by the session is a name of the
\* subquery.
SubqueryParameterMerge ==
    \A n \in SessionTokens :
        tok[n].op = TOKEN_SUBQUERY =>
            /\ \A k \in DOMAIN subqueries[tok[n].value] :
                  /\ k \in DOMAIN parameters
                  /\ parameters[k] = subqueries[tok[n].value][k]
            /\ \A m \in ParamTokens : tok[m].value \notin DOMAIN subqueries[tok[n].value]

\* C9: BuildValues returns the values of the declared names in declared
\* order when every declared name is a key of the map (nil values included),
\* and otherwise panics naming a declared name that is no key, returning no array.
ParameterCompleteness ==
    values.done =>
        IF \A i \in DOMAIN names : names[i] \in DOMAIN paramMap
        THEN /\ ~values.panic
             /\ values.returned
             /\ Len(values.paramArray) = Len(names)
             /\ \A i \in DOMAIN names : values.paramArray[i] = paramMap[names[i]]
        ELSE /\ values.panic
             /\ ~values.returned
             /\ values.name \in Range(names) \ DOMAIN paramMap

\* C9 witness: an array was returned with a nil the caller supplied
ParameterCompletenessWitness ==
    /\ values.done
    /\ values.returned
    /\ \E i \in DOMAIN names : paramMap[names[i]] = Nil /\ values.paramArray[i] = Nil

\* C10: the criteria of the schema and of the caller stay as they were built:
\* raw literals with their values, no table alias.
CloneBeforeRewrite ==
    \A n \in DOMAIN TemplateTokens : tok[n] = TemplateTokens[n]

\* C10 witness: where and joinTo each rewrote a copy of the caller's criteria
\* x = 7 and of a table discriminator
CloneBeforeRewriteWitness ==
    /\ \E n \in ColumnTokens(criteria) : tok[n].value = "x" /\ tok[n].alias # ""
    /\ \E n \in ColumnTokens(criteria) : tok[n].value = "deleted"
    /\ \E p \in DOMAIN pe :
          /\ \E n \in ColumnTokens(pe[p].Criteria) : tok[n].value = "x" /\ tok[n].alias # ""
          /\ \E n \in ColumnTokens(pe[p].Criteria) : tok[n].value = "active"
    /\ ParamTokens # {}

\* C11: with the calls of two sessions over the same schema interleaved in any
\* order, each session holds the joins, aliases, cached paths, criteria and
\* parameters it holds when it performs its calls alone.
SessionIsolation ==
    \A s \in Sessions : SessionView(Session(s)) = SessionView(Alone(log[s]))

\* C11 witness: both sessions joined a path and hold parameters, the second
\* session started its path first and the first session joined first
SessionIsolationWitness ==
    /\ joins # <<>>
    /\ peer.joins # <<>>
    /\ joins[1].associations[1] > peer.joins[1].associations[1]
    /\ pe[joins[1].associations[1]].Derived < pe[peer.joins[1].associations[1]].Derived
    /\ parameters # EmptyMap
    /\ peer.parameters # EmptyMap

\* C12 (as claimed): a newly resolved element with a preferred alias has that
\* alias stamped as its destination alias, the alias bag returns it for the
\* association from then on, and the next element of the path starts at it;
\* a newly resolved element without one has a generated destination alias:
\* a base table alias, "_j" and a counter value.
PreferredAliasOverride ==
    \A j \in DOMAIN joins : \A i \in DOMAIN joins[j].associations :
        LET elements == joins[j].associations
            d == pe[elements[i]].Derived
            preferred == pe[elements[i]].PreferredAlias
        IN  FirstResolved(elements[i]) =>
                IF preferred # ""
                THEN /\ StampedAlias(assoc, d) = preferred
                     /\ AliasBagGetAlias(joinBag, DestinationHop(assoc, d)).alias = preferred
                     /\ i < Len(elements) =>
                           OriginAlias(assoc, pe[elements[i + 1]].Derived) = preferred
                ELSE \E a \in BaseAliases : \E n \in 1..(3 * MaxJoins * MaxPathLen) :
                        StampedAlias(assoc, d) = a \o "_" \o JOIN_PREFIX \o ToString(n)

\* C13 (as claimed): in every Join record the first step starts at the base
\* table alias of the session and every later step starts at the destination
\* alias of the step before it.
AliasChainContinuity ==
    \A j \in DOMAIN joins : \A i \in DOMAIN joins[j].associations :
        LET elements == joins[j].associations
        IN  OriginAlias(assoc, pe[elements[i]].Derived) =
                IF i = 1
                THEN tableAlias
                ELSE StampedAlias(assoc, pe[elements[i - 1]].Derived)

\* the discriminator criteria a joinTo step built (Discriminator.Criteria):
\* the new comparisons that still hold their raw literal
BuiltDiscriminators ==
    {n \in (Len(tok) + 1)..Len(tok') :
        /\ tok'[n].op = TOKEN_EQ
        /\ tok'[tok'[n].members[2]].op = TOKEN_RAW}

\* the k-th member of a set of numbers, in increasing order
Nth(S, k) == CHOOSE n \in S : Cardinality({m \in S : m < n}) = k - 1

\* C14 (as claimed): joinTo builds, for each step of the path in order, the
\* criteria of the association discriminator: forced to the destination alias
\* of the previous hop (the base table alias for the first step) when the
\* discriminator is not on the destination table, without alias otherwise;
\* and the only associations that get an alias in the bag are hops stamped
\* with that alias.
OriginSideDiscriminator ==
    [][JoinToStep =>
        /\ Cardinality(BuiltDiscriminators) =
              Cardinality({i \in DOMAIN path : assoc[pe[path[i]].Base].discriminators # <<>>})
        /\ \A i \in DOMAIN path :
              LET base == assoc[pe[path[i]].Base]
                  k == Cardinality({h \in 1..i : assoc[pe[path[h]].Base].discriminators # <<>>})
                  column == tok'[Nth(BuiltDiscriminators, k)].members[1]
              IN  base.discriminators # <<>> =>
                      tok'[column].alias =
                          IF base.discriminatorTable = base.tableTo
                          THEN ""
                          ELSE IF i = 1
                               THEN tableAlias
                               ELSE StampedAlias(assoc', pe'[path[i - 1]].Derived)
        /\ \A a \in DOMAIN joinBag'.bag \ DOMAIN joinBag.bag :
              assoc'[a].aliasTo = joinBag'.bag[a]
    ]_vars

\* the columns of the tree rooted at id, from left to right (none for nil)
RECURSIVE ColumnSeq(_, _)
RECURSIVE ColumnSeqOf(_, _, _)
ColumnSeqOf(heap, members, i) ==
    IF i > Len(members)
    THEN <<>>
    ELSE ColumnSeq(heap, members[i]) \o ColumnSeqOf(heap, members, i + 1)

ColumnSeq(heap, id) ==
    IF id = 0
    THEN <<>>
    ELSE IF heap[id].op = TOKEN_COLUMN
         THEN <<heap[id].value>>
         ELSE ColumnSeqOf(heap, heap[id].members, 1)

\* the columns of the discriminators of the association a, and of the
\* discriminators of its destination table, in declared order
AssociationColumns(a) ==
    [k \in DOMAIN SchemaAssociations[a].discriminators |->
        SchemaAssociations[a].discriminators[k].column]

DestinationColumns(a) ==
    ColumnSeqOf(TemplateTokens, GetCriterias(SchemaAssociations[a].tableTo), 1)

\* the association a has a discriminator on its origin table
OriginSide(a) ==
    /\ SchemaAssociations[a].discriminators # <<>>
    /\ SchemaAssociations[a].discriminatorTable # SchemaAssociations[a].tableTo

\* the ON criteria of every element of every join hold what the slot of the
\* element holds: the criteria of the caller, the discriminators of the
\* destination table and, when withOrigin or when they are on the destination
\* table, the discriminators of the association
SlotsAttached(withOrigin) ==
    \A j \in DOMAIN joins : \A i \in DOMAIN joins[j].associations :
        LET p == joins[j].associations[i]
            a == pe[p].Base
            own == IF withOrigin \/ ~OriginSide(a) THEN AssociationColumns(a) ELSE <<>>
        IN  \E crit \in ElementCriterias :
                ColumnSeq(tok, pe[p].Criteria) =
                    ColumnSeq(TemplateTokens, crit) \o DestinationColumns(a) \o own

\* the columns of the restrictions a caller hands to where, and of the
\* discriminators of the base table
WhereColumns ==
    UNION {Range(ColumnSeqOf(TemplateTokens, r, 1)) : r \in Restrictions}
        \cup Range(ColumnSeqOf(TemplateTokens, GetCriterias(table), 1))

Bases(elements) == [i \in DOMAIN elements |-> pe[elements[i]].Base]

\* the requested path p is matched as a whole by the leading elements of a cached path
WhollyCached(p) == \E c \in Range(cachedAssociation) : SharedLen(c, p) = Len(p)

\* no two cached paths follow the same schema-level associations
NoCachedTwice ==
    \A i, k \in DOMAIN cachedAssociation :
        i # k => Bases(cachedAssociation[i]) # Bases(cachedAssociation[k])

\* C16: a resolution adds its path to the cache exactly when the path is not
\* matched as a whole by the leading elements of a cached path, and otherwise
\* leaves the cache as it is; nothing else changes the cache; no two cached
\* paths follow the same schema-level associations.
CacheWithoutDuplicates ==
    [][/\ cachedAssociation' = IF JoinToStep /\ ~WhollyCached(path)
                               THEN Append(cachedAssociation, path)
                               ELSE cachedAssociation
       /\ NoCachedTwice']_vars

\* C16 witness: the second resolution was of the leading part of the path
\* cached by the first, and the cache still holds that one path
CacheWithoutDuplicatesWitness ==
    /\ Len(joins) = 2
    /\ Len(cachedAssociation) = 1
    /\ Len(joins[2].associations) < Len(joins[1].associations)
    /\ Bases(joins[2].associations) = SubSeq(Bases(cachedAssociation[1]), 1, 1)

\* the cached path the requested path p shares its reused elements with
\* (the first of the cached paths that share the most)
MatchedPath(p) ==
    cachedAssociation[CHOOSE i \in DOMAIN cachedAssociation :
        /\ SharedLen(cachedAssociation[i], p) = ReusedLen(p)
        /\ \A k \in 1..(i - 1) : SharedLen(cachedAssociation[k], p) < ReusedLen(p)]

\* C17 (as claimed): a joinTo gives every element of its path that is matched
\* by a cached element the derived association of that cached element, whatever
\* its preferred alias; the aliases of that association stay those of its first
\* resolution, and what the alias bag holds for it does not change.
PreferredAliasIgnoredOnReuse ==
    [][JoinToStep =>
        \A i \in 1..ReusedLen(path) :
            LET d == pe[MatchedPath(path)[i]].Derived
            IN  /\ pe'[path[i]].Derived = d
                /\ AssociationView(assoc', d) = AssociationView(assoc, d)
                /\ \A h \in Hops(assoc, d) :
                      /\ h \in DOMAIN joinBag'.bag <=> h \in DOMAIN joinBag.bag
                      /\ h \in DOMAIN joinBag.bag => joinBag'.bag[h] = joinBag.bag[h]
    ]_vars

\* C18: every joinTo(path, fetch) on a non-empty path appends one Join record
\* after the earlier ones, which stay as they were; the record holds the
\* elements of the path in request order, each with a derived association of
\* its schema association (the one cached for a reused element, a new one
\* otherwise), carries the requested fetch flag and is the lastJoin.
OneJoinPerResolution ==
    [][\A fetch \in BOOLEAN, preferred \in PreferredAliases :
        CallJoinTo(fetch, preferred, 0) =>
            /\ Len(joins') = Len(joins) + 1
            /\ SubSeq(joins', 1, Len(joins)) = joins
            /\ joins'[Len(joins')].associations = path
            /\ joins'[Len(joins')].fetch = fetch
            /\ lastJoin' = Len(joins')
            /\ \A i \in DOMAIN path :
                  LET d == pe'[path[i]].Derived
                  IN  /\ d \in DOMAIN assoc'
                      /\ assoc'[d].name = SchemaAssociations[pe[path[i]].Base].name
                      /\ IF i <= ReusedLen(path)
                         THEN d = pe[MatchedPath(path)[i]].Derived
                         ELSE d \notin DOMAIN assoc
    ]_vars

\* C18 witness: two Join records, the first not fetched, the second fetched
\* and made of a reused element followed by a newly resolved one
OneJoinPerResolutionWitness ==
    /\ Len(joins) = 2
    /\ lastJoin = 2
    /\ ~joins[1].fetch
    /\ joins[2].fetch
    /\ Len(joins[2].associations) = 2
    /\ pe[joins[2].associations[1]].Derived = pe[joins[1].associations[1]].Derived
    /\ pe[joins[2].associations[2]].Derived \notin
          {pe[p].Derived : p \in Range(joins[1].associations)}

\* C19 (as claimed): after a joinTo, lastFkAlias is the destination alias
\* stamped on the last step of the path (on its to-junction hop when the step
\* is many-to-many), whether the step was resolved anew or reused.
TerminalAliasTracking ==
    [][JoinToStep =>
        lastFkAlias' = StampedAlias(assoc', pe'[path[Len(path)]].Derived)]_vars

\* the tree rooted at id without addresses, aliases and literal values: a raw
\* literal and the parameter that replaces it are alike
RECURSIVE Shape(_, _)
Shape(heap, id) ==
    <<[op |-> IF heap[id].op = TOKEN_RAW THEN TOKEN_PARAM ELSE heap[id].op,
       value |-> IF heap[id].op \in {TOKEN_COLUMN, TOKEN_SUBQUERY} THEN heap[id].value ELSE "",
       members |-> [i \in DOMAIN heap[id].members |-> Shape(heap, heap[id].members[i])]]>>

\* C20: after where(restrictions) with restrictions given or a base table with
\* discriminators, the criteria of the session are a new copy of the
\* conjunction of the restrictions followed by the discriminators of the base
\* table, with every column aliased to the base table alias and no raw
\* literal; this holds for every where call of a sequence; with neither
\* restrictions nor discriminators the call leaves the criteria as they are.
BaseDiscriminatorsInWhere ==
    [][\A restrictions \in Restrictions :
        CallWhereInSequence(restrictions) =>
            LET wanted == restrictions \o GetCriterias(table)
            IN  IF wanted = <<>>
                THEN criteria' = criteria
                ELSE /\ criteria' \in DOMAIN tok'
                     /\ Nodes(tok', criteria') \cap DOMAIN tok = {}
                     /\ Shape(tok', criteria') =
                           <<[op |-> TOKEN_AND, value |-> "",
                              members |-> [k \in DOMAIN wanted |->
                                              Shape(TemplateTokens, wanted[k])]]>>
                     /\ \A n \in Nodes(tok', criteria') :
                           /\ tok'[n].op # TOKEN_RAW
                           /\ tok'[n].op = TOKEN_COLUMN => tok'[n].alias = tableAlias
    ]_vars

\* C20 witness: the second where call of a session on T0, after a change of
\* the base table alias: the criteria hold the restrictions on x and z and the
\* discriminator of T0, with the alias x
BaseDiscriminatorsInWhereWitness ==
    /\ table = "T0"
    /\ calls.where = 2
    /\ tableAlias = "x"
    /\ ColumnSeq(tok, criteria) = <<"x", "z", "deleted">>
    /\ \A n \in ColumnTokens(criteria) : tok[n].alias = "x"

\* a join has ON criteria or included columns that are not the ones it had
OnChanged ==
    \E p \in DOMAIN pe :
        \/ pe'[p].Criteria # pe[p].Criteria
        \/ pe'[p].Columns # pe[p].Columns

\* C21 (as claimed): every step that changes the base table alias, the current
\* path, the join list, the ON criteria or included columns of a join, or the
\* WHERE criteria leaves rawSQL nil, so a rawSQL that is not nil was stored
\* after the last such change.
CachedSqlInvalidation ==
    [][(\/ tableAlias' # tableAlias
        \/ path' # path
        \/ joins' # joins
        \/ criteria' # criteria
        \/ OnChanged) => ~rawSQL']_vars

\* C22 (as claimed): when an operation has returned, Close was called on every
\* statement it prepared and on the row set of the statement if one was
\* opened, whatever failed on the way.
ResourcesReleased ==
    \A s \in DOMAIN connection :
        /\ connection[s].closed
        /\ connection[s].rows # "open"

\* the message of a failure has this piece
Carries(fail, piece) == \E i \in DOMAIN fail.message : fail.message[i] = piece

\* the failure returned by the last call has a code and its message has the
\* cause, the SQL text of the call and, when the call had any, its parameters
CodedWith(codes, cause) ==
    LET fail == outcome.returned.fail
    IN  /\ fail.code \in codes
        /\ Carries(fail, cause)
        /\ Carries(fail, outcome.sql)
        /\ outcome.params # <<>> => Carries(fail, Format(outcome.params))

\* C23: a call whose Prepare failed prepared and ran no statement and returned
\* a FAULT_PREP_STATEMENT failure; a call whose Query or Exec failed returned
\* a FAULT_QUERY failure (the four queries) or a FAULT_EXEC_STATEMENT failure
\* (Update, Insert); a call whose row transformer failed on a row moved to no
\* row after that one and returned a coded failure with a nil result; each of
\* these failures carries the cause, the SQL text and the parameters.
DatabaseFailuresCoded ==
    LET driver == outcome.driver
        queries == {"QueryCollection", "Query", "QueryClosure", "QueryRow"}
        transformers == {"QueryCollection", "Query", "QueryClosure"}
    IN  outcome.op # "" =>
            /\ driver.prepare # "" =>
                   /\ outcome.stmt = 0
                   /\ CodedWith({FAULT_PREP_STATEMENT}, driver.prepare)
            /\ driver.prepare = "" /\ driver.run # "" =>
                   /\ connection[outcome.stmt].executed
                   /\ CodedWith(IF outcome.op \in queries
                                THEN {FAULT_QUERY}
                                ELSE {FAULT_EXEC_STATEMENT}, driver.run)
            /\ (/\ driver.prepare = "" /\ driver.run = "" /\ driver.failAt # 0
                /\ outcome.op \in transformers) =>
                   /\ connection[outcome.stmt].next = driver.failAt
                   /\ outcome.returned.nil
                   /\ outcome.returned.values = <<>>
                   /\ CodedWith({FAULT_TRANSFORM, FAULT_PARSE_STATEMENT}, "transform failed")

\* QueryCollection with two parameters whose transformer failed on the second
\* of two rows
DatabaseFailuresCodedWitness ==
    /\ outcome.op = "QueryCollection"
    /\ outcome.params = <<"7", "9">>
    /\ outcome.driver.rows = 2
    /\ outcome.driver.failAt = 2
    /\ outcome.returned.nil
    /\ outcome.returned.fail.code = FAULT_TRANSFORM
    /\ Carries(outcome.returned.fail, "[7 9]")
    /\ connection[outcome.stmt].next = 2

====
